---- MODULE Spec2Model ----
(***************************************************************************)
(* The upload / transcribe / summarize pipeline of the Parle API           *)
(* (apps/api/src/routes): POST /upload, DELETE /transcripts/:id,           *)
(* PUT /transcripts/:id/regenerate-transcript,                             *)
(* PUT /transcripts/:id/regenerate-summary and                             *)
(* POST /transcripts/:id/re-upload, as request handlers that interleave    *)
(* at their awaits over the Conversation table and the R2 bucket.          *)
(***************************************************************************)
EXTENDS Integers, Sequences, FiniteSets, TLC

VARIABLES
  conversations,  \* the Conversation table: id -> row
  nextId,         \* ids handed out so far (ids are never reused)
  bucket,         \* the object keys present in the R2 bucket
  req,            \* per request: handler, locals, position, response
  touched         \* requests whose row another request wrote or deleted
                  \* while they were in flight

vars == <<conversations, nextId, bucket, req, touched>>

\* ------------------------------------------------------------------ bounds
MaxReqs == 2
Reqs == 1..MaxReqs

\* ---------------------------------------------------------------- constants
NULL == "NULL"
Users == {"u1", "u2"}
Uploaders == {"u1"}

\* a request without the X-User-Id header
NoUser == ""

maxSize == 25 * 1024 * 1024

allowedTypes == {"audio/mpeg", "audio/mp3", "audio/mp4", "audio/x-m4a", "video/mp4"}

allowedExtensions ==
  { <<".", "m", "p", "3">>, <<".", "m", "p", "4">>, <<".", "m", "4", "a">> }

\* ------------------------------------------------------------------ inputs
NoFile == [name |-> <<>>, type |-> "", size |-> -1]

Files ==
  { [name |-> <<"a", ".", "m", "p", "3">>, type |-> "audio/mpeg", size |-> 2 * 1024 * 1024],
    [name |-> <<"b", ".", "M", "4", "A">>, type |-> "application/octet-stream", size |-> maxSize],
    [name |-> <<"c", ".", "t", "x", "t">>, type |-> "text/plain", size |-> 10],
    [name |-> <<"d", ".", "m", "p", "3">>, type |-> "audio/mp3", size |-> maxSize + 1] }

\* a text is its content and its length in characters
NullText == [src |-> "NULL", len |-> 0]
EmptyText == [src |-> "", len |-> 0]
TranscriptOutputs == {[src |-> "t1", len |-> 120], [src |-> "t2", len |-> 450]}
SummaryOutputs == {"s1", "s2"}
ErrorMessages == {"e"}

\* ----------------------------------------------------------------- helpers
RECURSIVE LastDot(_, _)
LastDot(name, i) ==
  IF i = 0 THEN 0
  ELSE IF name[i] = "." THEN i ELSE LastDot(name, i - 1)

\* path.extname: from the last dot to the end; empty when there is no dot
\* or the only dot is the first character
extname(name) ==
  LET d == LastDot(name, Len(name))
  IN IF d <= 1 THEN <<>> ELSE SubSeq(name, d, Len(name))

lowerChar(ch) ==
  CASE ch = "A" -> "a"
    [] ch = "M" -> "m"
    [] ch = "P" -> "p"
    [] ch = "T" -> "t"
    [] ch = "X" -> "x"
    [] OTHER -> ch

toLowerCase(s) == [i \in 1..Len(s) |-> lowerChar(s[i])]

\* the file type test shared by upload and re-upload
typeAllowed(f) ==
  f.type \in allowedTypes \/ toLowerCase(extname(f.name)) \in allowedExtensions

sizeAllowed_Strict(f) == f.size < maxSize

sizeAllowed(f) == ~(f.size > maxSize)

\* the empty storagePath ('') and the object keys
EmptyPath == [user |-> "", id |-> 0, ext |-> <<>>]

\* `uploads/user/${userId}/${id}${fileExtension}`
objectKeyOf(userId, id, f) == [user |-> userId, id |-> id, ext |-> extname(f.name)]

truthyPath_Always(k) == TRUE

\* JavaScript truthiness of a storagePath string
truthyPath(k) == k # EmptyPath

\* a storagePath made of whitespace only
BlankPath == [user |-> " ", id |-> 0, ext |-> <<>>]

\* storagePath.trim(): object keys carry no surrounding whitespace
trimPath(k) == IF k = BlankPath THEN EmptyPath ELSE k

\* JavaScript truthiness / trim of a nullable text
truthyText(t) == t # NullText /\ t.len > 0
trimText(t) == IF t.src = " " THEN EmptyText ELSE t

NoRow == [userId |-> "", originalFilename |-> <<>>, storagePath |-> EmptyPath,
          mimeType |-> "", sizeBytes |-> 0, status |-> "none",
          transcriptText |-> NullText, summaryText |-> NULL, errorMessage |-> NULL]

createdRow_WithKey(userId, f) ==
  [userId |-> userId, originalFilename |-> f.name,
   storagePath |-> objectKeyOf(userId, nextId, f),
   mimeType |-> f.type, sizeBytes |-> f.size, status |-> "initial",
   transcriptText |-> NullText, summaryText |-> NULL, errorMessage |-> NULL]

\* prisma.conversation.create in the upload handler
createdRow(userId, f) ==
  [userId |-> userId, originalFilename |-> f.name, storagePath |-> EmptyPath,
   mimeType |-> f.type, sizeBytes |-> f.size, status |-> "initial",
   transcriptText |-> NullText, summaryText |-> NULL, errorMessage |-> NULL]

findFirst_AnyOwner(id, userId) ==
  IF id \in DOMAIN conversations THEN conversations[id] ELSE NoRow

\* prisma.conversation.findFirst({ where: { id, userId } })
findFirst(id, userId) ==
  IF id \in DOMAIN conversations /\ conversations[id].userId = userId
  THEN conversations[id] ELSE NoRow

exists(id) == id \in DOMAIN conversations

IdleReq ==
  [op |-> "none", pc |-> "idle", userId |-> "", id |-> 0, file |-> NoFile,
   conversation |-> NoRow, updatedConversation |-> NoRow, key |-> EmptyPath,
   text |-> NullText, summary |-> NULL, calls |-> <<>>, stage |-> "",
   resp |-> 0, body |-> NoRow]

\* a request starts only after the requests before it have started
CanStart(p) ==
  /\ req[p].pc = "idle"
  /\ \A q \in Reqs : q < p => req[q].pc # "idle"

\* the handler returns: its locals are gone, the response stays
Finish(r, stage, code, body) ==
  [r EXCEPT !.pc = "done", !.file = NoFile, !.updatedConversation = NoRow,
            !.stage = stage, !.resp = code, !.body = body]

\* a 400 for the file offered; the file stays on record with the response
RejectedFile(r, stage) == [Finish(r, stage, 400, NoRow) EXCEPT !.file = r.file]

Init ==
  /\ conversations = [i \in {} |-> NoRow]
  /\ nextId = 1
  /\ bucket = {}
  /\ req = [p \in Reqs |-> IdleReq]
  /\ touched = {}

\* prisma.conversation.update({ where: { id }, data }): the row after the
\* update; the caller checks exists(id) first, a missing row makes it throw
updated(id, data) ==
  [f \in DOMAIN conversations[id] |->
     IF f \in DOMAIN data THEN data[f] ELSE conversations[id][f]]

\* the requests in flight on row `id`, other than p
Others(p, id) ==
  {q \in Reqs \ {p} : req[q].pc \notin {"idle", "done"} /\ req[q].id = id}

Write_FromSnapshot(p, id, data) ==
  /\ conversations' = [conversations EXCEPT ![id] =
       [f \in DOMAIN req[p].conversation |->
          IF f \in DOMAIN data THEN data[f] ELSE req[p].conversation[f]]]
  /\ touched' = touched \cup Others(p, id)

\* one UPDATE statement: the columns named in `data` are set on the row as
\* it is in the table now, whatever the handler read earlier
Write(p, id, data) ==
  /\ conversations' = [conversations EXCEPT ![id] = updated(id, data)]
  /\ touched' = touched \cup Others(p, id)

\* authMiddleware: the X-User-Id header is there
authenticated_Always(userId) == TRUE

authenticated(userId) == userId # NoUser

\* return c.json({ error: 'Unauthorized: Missing user ID' }, 401): the
\* handler is not entered, only the route is known
Unauthorized(r) ==
  Finish([IdleReq EXCEPT !.op = r.op], "unauthorized", 401, NoRow)

\* ------------------------------------------------------------ POST /upload
\* body parsing, the file checks and prisma.conversation.create
UploadPost(p, userId, f) ==
  /\ CanStart(p)
  /\ LET r == [IdleReq EXCEPT !.op = "upload", !.userId = userId, !.file = f]
     IN IF ~authenticated(userId)
        THEN /\ req' = [req EXCEPT ![p] = Unauthorized(r)]
             /\ UNCHANGED <<conversations, nextId, bucket, touched>>
        ELSE IF f = NoFile
        THEN /\ req' = [req EXCEPT ![p] = Finish(r, "no_file", 400, NoRow)]
             /\ UNCHANGED <<conversations, nextId, bucket, touched>>
        ELSE IF ~typeAllowed(f)
        THEN /\ req' = [req EXCEPT ![p] = RejectedFile(r, "file_type")]
             /\ UNCHANGED <<conversations, nextId, bucket, touched>>
        ELSE IF ~sizeAllowed(f)
        THEN /\ req' = [req EXCEPT ![p] = RejectedFile(r, "file_size")]
             /\ UNCHANGED <<conversations, nextId, bucket, touched>>
        ELSE /\ conversations' =
                  [i \in DOMAIN conversations \cup {nextId} |->
                     IF i = nextId THEN createdRow(userId, f) ELSE conversations[i]]
             /\ nextId' = nextId + 1
             /\ req' = [req EXCEPT ![p] =
                  [r EXCEPT !.pc = "upload_put", !.id = nextId,
                            !.conversation = createdRow(userId, f),
                            !.key = objectKeyOf(userId, nextId, f)]]
             /\ UNCHANGED <<bucket, touched>>

\* storageService.uploadFile(file, key): stored, rejected, or stored without
\* a Location (the service then throws UploadFailedError)
PutOutcomes == {"stored", "rejected", "no_location"}

uploadFile(key, outcome) ==
  IF outcome = "rejected" THEN bucket ELSE bucket \cup {key}

\* storageService.uploadFile(audioFile, objectKey); a throw reaches the outer
\* catch, 500
UploadPut(p) ==
  /\ req[p].pc = "upload_put"
  /\ \E outcome \in PutOutcomes :
       LET r == [req[p] EXCEPT !.calls = Append(@, "put")]
       IN /\ bucket' = uploadFile(req[p].key, outcome)
          /\ req' = [req EXCEPT ![p] =
               IF outcome = "stored"
               THEN [r EXCEPT !.pc = "upload_set_key"]
               ELSE Finish(r, "put", 500, NoRow)]
  /\ UNCHANGED <<conversations, nextId, touched>>

\* prisma.conversation.update({ storagePath: uploadResult.key }); a throw
\* reaches the outer catch, 500
UploadSetKey(p) ==
  /\ req[p].pc = "upload_set_key"
  /\ LET id == req[p].id
         data == [storagePath |-> req[p].key]
     IN IF exists(id)
        THEN /\ Write(p, id, data)
             /\ req' = [req EXCEPT ![p] =
                  [req[p] EXCEPT !.pc = "upload_transcribe",
                                 !.conversation = updated(id, data)]]
        ELSE /\ req' = [req EXCEPT ![p] = Finish(req[p], "row", 500, NoRow)]
             /\ UNCHANGED <<conversations, touched>>
  /\ UNCHANGED <<nextId, bucket>>

failedUpload_NoStatus(e) == [errorMessage |-> e]

\* the data of the update in catch (transcribeError) of the upload handler
failedUpload(e) == [status |-> "failed", errorMessage |-> e]

\* transcribeAudio(uploadResult.key, conversation.id), then
\* update({ transcriptText, status: 'transcribed' }); a throw of either lands
\* in catch (transcribeError): update({ status: 'failed', errorMessage }) and
\* 500; a throw there reaches the outer catch, 500
UploadTranscribe(p) ==
  /\ req[p].pc = "upload_transcribe"
  /\ LET id == req[p].id
         r == [req[p] EXCEPT !.calls = Append(@, "transcribe")]
     IN \/ \E t \in TranscriptOutputs :
             LET data == [transcriptText |-> t, status |-> "transcribed"]
             IN IF exists(id)
                THEN /\ Write(p, id, data)
                     /\ req' = [req EXCEPT ![p] =
                          [r EXCEPT !.pc = "upload_summarize", !.text = t,
                                    !.conversation = updated(id, data)]]
                ELSE /\ req' = [req EXCEPT ![p] =
                          Finish([r EXCEPT !.text = t], "row", 500, NoRow)]
                     /\ UNCHANGED <<conversations, touched>>
        \/ \E e \in ErrorMessages :
             /\ IF exists(id)
                THEN Write(p, id, failedUpload(e))
                ELSE UNCHANGED <<conversations, touched>>
             /\ req' = [req EXCEPT ![p] = Finish(r, "transcribe", 500, NoRow)]
  /\ UNCHANGED <<nextId, bucket>>

min(a, b) == IF a < b THEN a ELSE b

\* String.prototype.substring(0, n)
substring(t, n) == [src |-> t.src, len |-> min(t.len, n)]

previewLength == 300

UploadResponse_WholeTranscript(id, c) ==
  [id |-> id, status |-> c.status, transcriptPreview |-> c.transcriptText,
   summary |-> c.summaryText]

\* the response of POST /upload: id, status, transcriptPreview, summary
UploadResponse(id, c) ==
  [id |-> id, status |-> c.status,
   transcriptPreview |-> IF c.transcriptText = NullText THEN NullText
                         ELSE substring(c.transcriptText, previewLength),
   summary |-> c.summaryText]

afterSummaryError_MarksFailed(id) ==
  IF exists(id)
  THEN [conversations EXCEPT ![id].status = "failed", ![id].errorMessage = "e"]
  ELSE conversations

\* the table after catch (summaryError) of upload and re-upload: the handler
\* only logs ("continue without failing the entire process")
afterSummaryError(id) == conversations

\* summarizeTranscript(transcriptText, conversation.id), then
\* update({ summaryText, status: 'summarized' }); catch (summaryError) only
\* logs, the handler then answers 200 with the row it holds
UploadSummarize(p) ==
  /\ req[p].pc = "upload_summarize"
  /\ LET id == req[p].id
         held == req[p].conversation
         r == [req[p] EXCEPT !.calls = Append(@, "summarize")]
     IN \/ \E s \in SummaryOutputs :
             LET data == [summaryText |-> s, status |-> "summarized"]
             IN IF exists(id)
                THEN /\ Write(p, id, data)
                     /\ req' = [req EXCEPT ![p] =
                          Finish([r EXCEPT !.summary = s, !.conversation = updated(id, data)],
                                 "ok", 200, UploadResponse(id, updated(id, data)))]
                ELSE /\ req' = [req EXCEPT ![p] =
                          Finish([r EXCEPT !.summary = s], "row", 200, UploadResponse(id, held))]
                     /\ UNCHANGED <<conversations, touched>>
        \/ /\ req' = [req EXCEPT ![p] =
                Finish(r, "summarize", 200, UploadResponse(id, held))]
           /\ conversations' = afterSummaryError(id)
           /\ UNCHANGED touched
  /\ UNCHANGED <<nextId, bucket>>

\* ---------------------------------------------------------- GET /health
\* health.get('/'): no middleware, { ok: true }
Health(p) ==
  /\ CanStart(p)
  /\ req' = [req EXCEPT ![p] =
       Finish([IdleReq EXCEPT !.op = "health"], "ok", 200, [ok |-> TRUE])]
  /\ UNCHANGED <<conversations, nextId, bucket, touched>>

\* ------------------------------------------------------- GET /transcripts
findMany_All(userId) ==
  {[id |-> i, row |-> conversations[i]] : i \in DOMAIN conversations}

\* prisma.conversation.findMany({ where: { userId } })
findMany(userId) ==
  {[id |-> i, row |-> conversations[i]] :
     i \in {j \in DOMAIN conversations : conversations[j].userId = userId}}

List(p, userId) ==
  /\ CanStart(p)
  /\ LET r == [IdleReq EXCEPT !.op = "list", !.userId = userId]
     IN req' = [req EXCEPT ![p] =
          IF ~authenticated(userId) THEN Unauthorized(r)
          ELSE Finish(r, "ok", 200, [rows |-> findMany(userId)])]
  /\ UNCHANGED <<conversations, nextId, bucket, touched>>

\* --------------------------------------------------- GET /transcripts/:id
Get(p, userId, id) ==
  /\ CanStart(p)
  /\ LET c == findFirst(id, userId)
         r == [IdleReq EXCEPT !.op = "get", !.userId = userId, !.id = id,
                              !.conversation = c]
     IN req' = [req EXCEPT ![p] =
          IF ~authenticated(userId) THEN Unauthorized(r)
          ELSE IF c = NoRow THEN Finish(r, "not_found", 404, NoRow)
          ELSE Finish(r, "ok", 200, c)]
  /\ UNCHANGED <<conversations, nextId, bucket, touched>>

\* ------------------------------------------------- DELETE /transcripts/:id
deletesBlob_Or(c) == c.status # "initial" \/ truthyPath(c.storagePath)

\* the test that guards storageService.deleteFile
deletesBlob(c) == c.status # "initial" /\ truthyPath(c.storagePath)

\* findFirst({ id, userId }) and the choice between deleteFile and the skip
DeleteFind(p, userId, id) ==
  /\ CanStart(p)
  /\ LET c == findFirst(id, userId)
         r == [IdleReq EXCEPT !.op = "delete", !.userId = userId, !.id = id,
                              !.conversation = c]
     IN req' = [req EXCEPT ![p] =
          IF ~authenticated(userId) THEN Unauthorized(r)
          ELSE IF c = NoRow THEN Finish(r, "not_found", 404, NoRow)
          ELSE IF deletesBlob(c) THEN [r EXCEPT !.pc = "delete_blob"]
          ELSE [r EXCEPT !.pc = "delete_row", !.stage = "skipped"]]
  /\ UNCHANGED <<conversations, nextId, bucket, touched>>

afterDeleteFile_Abort(r, ok) ==
  IF ok THEN [r EXCEPT !.pc = "delete_row", !.stage = "deleted"]
  ELSE Finish(r, "storage_error", 500, NoRow)

afterDeleteFile_Hangs(r, ok) ==
  IF ok THEN [r EXCEPT !.pc = "delete_row", !.stage = "deleted"]
  ELSE [r EXCEPT !.pc = "delete_blob_retry"]

\* the handler after deleteFile: catch (storageError) logs and goes on to
\* the database deletion
afterDeleteFile(r, ok) ==
  [r EXCEPT !.pc = "delete_row", !.stage = IF ok THEN "deleted" ELSE "storage_error"]

\* storageService.deleteFile(conversation.storagePath)
DeleteBlob(p) ==
  /\ req[p].pc = "delete_blob"
  /\ \E ok \in BOOLEAN :
       /\ bucket' = IF ok THEN bucket \ {req[p].conversation.storagePath} ELSE bucket
       /\ req' = [req EXCEPT ![p] =
            afterDeleteFile([req[p] EXCEPT !.calls = Append(@, "deleteFile")], ok)]
  /\ UNCHANGED <<conversations, nextId, touched>>

\* prisma.conversation.delete({ where: { id } }), 204; a missing row makes it
\* throw, 500
DeleteRow(p) ==
  /\ req[p].pc = "delete_row"
  /\ LET id == req[p].id
     IN IF exists(id)
        THEN /\ conversations' = [i \in DOMAIN conversations \ {id} |-> conversations[i]]
             /\ touched' = touched \cup Others(p, id)
             /\ req' = [req EXCEPT ![p] = Finish(req[p], req[p].stage, 204, NoRow)]
        ELSE /\ req' = [req EXCEPT ![p] = Finish(req[p], req[p].stage, 500, NoRow)]
             /\ UNCHANGED <<conversations, touched>>
  /\ UNCHANGED <<nextId, bucket>>

\* ------------------------------ PUT /transcripts/:id/regenerate-transcript
RegenerateTranscriptFind(p, userId, id) ==
  /\ CanStart(p)
  /\ LET c == findFirst(id, userId)
         r == [IdleReq EXCEPT !.op = "regenerate-transcript", !.userId = userId,
                              !.id = id, !.conversation = c]
     IN req' = [req EXCEPT ![p] =
          IF ~authenticated(userId) THEN Unauthorized(r)
          ELSE IF c = NoRow THEN Finish(r, "not_found", 404, NoRow)
          ELSE IF ~truthyPath(c.storagePath) THEN Finish(r, "no_audio", 400, NoRow)
          ELSE [r EXCEPT !.pc = "rt_transcribe"]]
  /\ UNCHANGED <<conversations, nextId, bucket, touched>>

regeneratedTranscript_KeepsSummary(t) ==
  [transcriptText |-> t, status |-> "transcribed", errorMessage |-> NULL]

regeneratedTranscript_KeepsError(t) ==
  [transcriptText |-> t, summaryText |-> NULL, status |-> "transcribed"]

\* the data of the update after a successful regeneration
regeneratedTranscript(t) ==
  [transcriptText |-> t, summaryText |-> NULL, status |-> "transcribed",
   errorMessage |-> NULL]

failedRegeneration_NoStatus(e) == [errorMessage |-> "Regeneration failed: e"]

failedRegeneration_ClearsKey(e) ==
  [status |-> "failed", errorMessage |-> "Regeneration failed: e",
   storagePath |-> EmptyPath]

\* the data of the update in catch (transcriptionError):
\* `Regeneration failed: ${errorMessage}`
failedRegeneration(e) ==
  [status |-> "failed",
   errorMessage |-> IF e = "e" THEN "Regeneration failed: e"
                    ELSE "Regeneration failed: P2025"]

\* transcribeAudio(conversation.storagePath, id), then update(...) and 200;
\* a throw of either lands in catch (transcriptionError): update(...) and
\* 422; a throw there reaches the outer catch, 500
RegenerateTranscriptCall(p) ==
  /\ req[p].pc = "rt_transcribe"
  /\ LET id == req[p].id
         r == [req[p] EXCEPT !.calls = Append(@, "transcribe")]
     IN \/ \E t \in TranscriptOutputs :
             IF exists(id)
             THEN /\ Write(p, id, regeneratedTranscript(t))
                  /\ req' = [req EXCEPT ![p] =
                       Finish([r EXCEPT !.text = t], "ok", 200,
                              updated(id, regeneratedTranscript(t)))]
             ELSE /\ req' = [req EXCEPT ![p] =
                       Finish([r EXCEPT !.text = t], "row", 500, NoRow)]
                  /\ UNCHANGED <<conversations, touched>>
        \/ \E e \in ErrorMessages :
             IF exists(id)
             THEN /\ Write(p, id, failedRegeneration(e))
                  /\ req' = [req EXCEPT ![p] = Finish(r, "transcribe", 422, NoRow)]
             ELSE /\ req' = [req EXCEPT ![p] = Finish(r, "transcribe", 500, NoRow)]
                  /\ UNCHANGED <<conversations, touched>>
  /\ UNCHANGED <<nextId, bucket>>

\* --------------------------------- PUT /transcripts/:id/regenerate-summary
hasTranscript_Always(c) == TRUE

\* the test that guards summarizeTranscript
hasTranscript(c) ==
  ~(~truthyText(c.transcriptText) \/ trimText(c.transcriptText).len = 0)

RegenerateSummaryFind(p, userId, id) ==
  /\ CanStart(p)
  /\ LET c == findFirst(id, userId)
         r == [IdleReq EXCEPT !.op = "regenerate-summary", !.userId = userId,
                              !.id = id, !.conversation = c]
     IN req' = [req EXCEPT ![p] =
          IF ~authenticated(userId) THEN Unauthorized(r)
          ELSE IF c = NoRow THEN Finish(r, "not_found", 404, NoRow)
          ELSE IF ~hasTranscript(c) THEN Finish(r, "no_transcript", 400, NoRow)
          ELSE [r EXCEPT !.pc = "rs_summarize"]]
  /\ UNCHANGED <<conversations, nextId, bucket, touched>>

regeneratedSummary_NoStatus(s) == [summaryText |-> s, errorMessage |-> NULL]

regeneratedSummary_DropsTranscript(s) ==
  [summaryText |-> s, status |-> "summarized", errorMessage |-> NULL,
   transcriptText |-> NullText]

\* the data of the update after a successful summary regeneration
regeneratedSummary(s) ==
  [summaryText |-> s, status |-> "summarized", errorMessage |-> NULL]

afterSummarizationError_MarksFailed(id) ==
  IF exists(id) THEN [conversations EXCEPT ![id].status = "failed"] ELSE conversations

\* the table after catch (summarizationError): the handler writes nothing
afterSummarizationError(id) == conversations

\* summarizeTranscript(conversation.transcriptText, id), then update(...)
\* and 200; a throw of either lands in catch (summarizationError), which
\* writes nothing and answers 422
RegenerateSummaryCall(p) ==
  /\ req[p].pc = "rs_summarize"
  /\ LET id == req[p].id
         r == [req[p] EXCEPT !.calls = Append(@, "summarize")]
     IN \/ \E s \in SummaryOutputs :
             IF exists(id)
             THEN /\ Write(p, id, regeneratedSummary(s))
                  /\ req' = [req EXCEPT ![p] =
                       Finish([r EXCEPT !.summary = s], "ok", 200,
                              updated(id, regeneratedSummary(s)))]
             ELSE /\ req' = [req EXCEPT ![p] =
                       Finish([r EXCEPT !.summary = s], "row", 422, NoRow)]
                  /\ UNCHANGED <<conversations, touched>>
        \/ /\ req' = [req EXCEPT ![p] = Finish(r, "summarize", 422, NoRow)]
           /\ conversations' = afterSummarizationError(id)
           /\ UNCHANGED touched
  /\ UNCHANGED <<nextId, bucket>>

\* ------------------------------------------ POST /transcripts/:id/re-upload
notInFailedUploadState_StatusOnly(c) == c.status # "initial"

\* the eligibility test of re-upload, as the handler writes it
notInFailedUploadState(c) ==
  c.status # "initial"
    \/ (truthyPath(c.storagePath) /\ trimPath(c.storagePath) # EmptyPath)

\* findFirst({ id, userId }), the eligibility test, body parsing and the
\* file checks
ReUploadFind(p, userId, id, f) ==
  /\ CanStart(p)
  /\ LET c == findFirst(id, userId)
         r == [IdleReq EXCEPT !.op = "re-upload", !.userId = userId, !.id = id,
                              !.file = f, !.conversation = c]
     IN req' = [req EXCEPT ![p] =
          IF ~authenticated(userId) THEN Unauthorized(r)
          ELSE IF c = NoRow THEN Finish(r, "not_found", 404, NoRow)
          ELSE IF notInFailedUploadState(c) THEN Finish(r, "state", 400, NoRow)
          ELSE IF f = NoFile THEN Finish(r, "no_file", 400, NoRow)
          ELSE IF ~typeAllowed(f) THEN RejectedFile(r, "file_type")
          ELSE IF ~sizeAllowed(f) THEN RejectedFile(r, "file_size")
          ELSE [r EXCEPT !.pc = "ru_put", !.key = objectKeyOf(userId, id, f)]]
  /\ UNCHANGED <<conversations, nextId, bucket, touched>>

\* storageService.uploadFile(audioFile, objectKey); a throw reaches the
\* outer catch, 500
ReUploadPut(p) ==
  /\ req[p].pc = "ru_put"
  /\ \E outcome \in PutOutcomes :
       LET r == [req[p] EXCEPT !.calls = Append(@, "put")]
       IN /\ bucket' = uploadFile(req[p].key, outcome)
          /\ req' = [req EXCEPT ![p] =
               IF outcome = "stored"
               THEN [r EXCEPT !.pc = "ru_set_meta"]
               ELSE Finish(r, "put", 500, NoRow)]
  /\ UNCHANGED <<conversations, nextId, touched>>

reUploaded_NoKey(f, key) ==
  [originalFilename |-> f.name, mimeType |-> f.type, sizeBytes |-> f.size,
   errorMessage |-> NULL]

\* the data of the update after the blob was stored
reUploaded(f, key) ==
  [originalFilename |-> f.name, storagePath |-> key, mimeType |-> f.type,
   sizeBytes |-> f.size, errorMessage |-> NULL]

\* prisma.conversation.update({ originalFilename, storagePath, ... })
ReUploadSetMeta(p) ==
  /\ req[p].pc = "ru_set_meta"
  /\ LET id == req[p].id
         data == reUploaded(req[p].file, req[p].key)
     IN IF exists(id)
        THEN /\ Write(p, id, data)
             /\ req' = [req EXCEPT ![p] =
                  [req[p] EXCEPT !.pc = "ru_transcribe",
                                 !.updatedConversation = updated(id, data)]]
        ELSE /\ req' = [req EXCEPT ![p] = Finish(req[p], "row", 500, NoRow)]
             /\ UNCHANGED <<conversations, touched>>
  /\ UNCHANGED <<nextId, bucket>>

\* the data of the update in catch (transcribeError):
\* `Transcription failed: ${errorMessage}`
failedReUpload(e) ==
  [status |-> "failed",
   errorMessage |-> IF e = "e" THEN "Transcription failed: e"
                    ELSE "Transcription failed: P2025"]

\* transcribeAudio(uploadResult.key, id), then
\* update({ transcriptText, status: 'transcribed' }); a throw of either lands
\* in catch (transcribeError): update(...) and 422; a throw there reaches the
\* outer catch, 500
ReUploadTranscribe(p) ==
  /\ req[p].pc = "ru_transcribe"
  /\ LET id == req[p].id
         r == [req[p] EXCEPT !.calls = Append(@, "transcribe")]
     IN \/ \E t \in TranscriptOutputs :
             LET data == [transcriptText |-> t, status |-> "transcribed"]
             IN IF exists(id)
                THEN /\ Write(p, id, data)
                     /\ req' = [req EXCEPT ![p] =
                          [r EXCEPT !.pc = "ru_summarize", !.text = t,
                                    !.updatedConversation = updated(id, data)]]
                ELSE /\ req' = [req EXCEPT ![p] =
                          Finish([r EXCEPT !.text = t], "row", 500, NoRow)]
                     /\ UNCHANGED <<conversations, touched>>
        \/ \E e \in ErrorMessages :
             IF exists(id)
             THEN /\ Write(p, id, failedReUpload(e))
                  /\ req' = [req EXCEPT ![p] = Finish(r, "transcribe", 422, NoRow)]
             ELSE /\ req' = [req EXCEPT ![p] = Finish(r, "transcribe", 500, NoRow)]
                  /\ UNCHANGED <<conversations, touched>>
  /\ UNCHANGED <<nextId, bucket>>

\* summarizeTranscript(transcriptText, id), then
\* update({ summaryText, status: 'summarized' }); catch (summaryError) only
\* logs, the handler then answers 200 with the row it holds
ReUploadSummarize(p) ==
  /\ req[p].pc = "ru_summarize"
  /\ LET id == req[p].id
         held == req[p].updatedConversation
         r == [req[p] EXCEPT !.calls = Append(@, "summarize")]
     IN \/ \E s \in SummaryOutputs :
             LET data == [summaryText |-> s, status |-> "summarized"]
             IN IF exists(id)
                THEN /\ Write(p, id, data)
                     /\ req' = [req EXCEPT ![p] =
                          Finish([r EXCEPT !.summary = s], "ok", 200, updated(id, data))]
                ELSE /\ req' = [req EXCEPT ![p] =
                          Finish([r EXCEPT !.summary = s], "row", 200, held)]
                     /\ UNCHANGED <<conversations, touched>>
        \/ /\ req' = [req EXCEPT ![p] = Finish(r, "summarize", 200, held)]
           /\ conversations' = afterSummaryError(id)
           /\ UNCHANGED touched
  /\ UNCHANGED <<nextId, bucket>>

\* ------------------------------------------------------------ the system
Inputs == Files \cup {NoFile}

\* the ids a request can name: every id handed out, and one never handed out
Ids == 1..nextId

\* the steps of the upload pipeline and of the recovery handlers, for
\* requests by `callers` (`uploaders` on POST /upload) offering `inputs`
Step(callers, uploaders, inputs) ==
  \/ \E p \in Reqs, u \in uploaders, f \in inputs : UploadPost(p, u, f)
  \/ \E p \in Reqs : UploadPut(p)
  \/ \E p \in Reqs : UploadSetKey(p)
  \/ \E p \in Reqs : UploadTranscribe(p)
  \/ \E p \in Reqs : UploadSummarize(p)
  \/ \E p \in Reqs, u \in callers, id \in Ids : DeleteFind(p, u, id)
  \/ \E p \in Reqs : DeleteBlob(p)
  \/ \E p \in Reqs : DeleteRow(p)
  \/ \E p \in Reqs, u \in callers, id \in Ids : RegenerateTranscriptFind(p, u, id)
  \/ \E p \in Reqs : RegenerateTranscriptCall(p)
  \/ \E p \in Reqs, u \in callers, id \in Ids : RegenerateSummaryFind(p, u, id)
  \/ \E p \in Reqs : RegenerateSummaryCall(p)
  \/ \E p \in Reqs, u \in callers, id \in Ids, f \in inputs : ReUploadFind(p, u, id, f)
  \/ \E p \in Reqs : ReUploadPut(p)
  \/ \E p \in Reqs : ReUploadSetMeta(p)
  \/ \E p \in Reqs : ReUploadTranscribe(p)
  \/ \E p \in Reqs : ReUploadSummarize(p)

\* authenticated requests to the upload pipeline and the recovery handlers
Next == Step(Users, Uploaders, Inputs)

Spec == Init /\ [][Next]_vars

\* every route, with and without the X-User-Id header; one valid file, no
\* file
Callers == Users \cup {NoUser}
UploadCallers == Uploaders \cup {NoUser}
AccessInputs == {f \in Files : f.size = 2 * 1024 * 1024} \cup {NoFile}

NextAccess ==
  \/ Step(Callers, UploadCallers, AccessInputs)
  \/ \E p \in Reqs : Health(p)
  \/ \E p \in Reqs, u \in Callers : List(p, u)
  \/ \E p \in Reqs, u \in Callers, id \in Ids : Get(p, u, id)

SpecAccess == Init /\ [][NextAccess]_vars

\* the rows an upload by u1 of the 2 MiB file leaves at rest with its blob
\* stored: summarized, transcribed without a summary, failed in transcription
SeedRows ==
  LET f == CHOOSE x \in AccessInputs : x # NoFile
      stored == [createdRow("u1", f) EXCEPT !.storagePath = objectKeyOf("u1", 1, f)]
      t == CHOOSE x \in TranscriptOutputs : x.src = "t1"
  IN { [stored EXCEPT !.status = "summarized", !.transcriptText = t,
                      !.summaryText = "s1"],
       [stored EXCEPT !.status = "transcribed", !.transcriptText = t],
       [stored EXCEPT !.status = "failed", !.errorMessage = "e"] }

\* the table after that upload has returned, every request still to come
InitRecovery ==
  /\ \E c \in SeedRows : /\ conversations = (1 :> c)
                         /\ bucket = {c.storagePath}
  /\ nextId = 2
  /\ req = [p \in Reqs |-> IdleReq]
  /\ touched = {}

\* the two regeneration handlers, called by the owner and by another user
NextRecovery ==
  \/ \E p \in Reqs, u \in Users, id \in Ids : RegenerateTranscriptFind(p, u, id)
  \/ \E p \in Reqs : RegenerateTranscriptCall(p)
  \/ \E p \in Reqs, u \in Users, id \in Ids : RegenerateSummaryFind(p, u, id)
  \/ \E p \in Reqs : RegenerateSummaryCall(p)

SpecRecovery == InitRecovery /\ [][NextRecovery]_vars

\* the rows an upload by u1 leaves at rest: those of SeedRows, and the row of
\* an upload whose blob put failed (initial, empty storagePath, no blob);
\* and the summarized row after a regenerate-transcript that failed
StoredRows ==
  SeedRows
    \cup {createdRow("u1", CHOOSE x \in AccessInputs : x # NoFile)}
    \cup {[c EXCEPT !.status = failedRegeneration("e").status,
                    !.errorMessage = failedRegeneration("e").errorMessage] :
            c \in {x \in SeedRows : x.status = "summarized"}}

InitStored ==
  /\ \E c \in StoredRows :
       /\ conversations = (1 :> c)
       /\ bucket = IF truthyPath(c.storagePath) THEN {c.storagePath} ELSE {}
  /\ nextId = 2
  /\ req = [p \in Reqs |-> IdleReq]
  /\ touched = {}

\* delete and the three recovery handlers on that record, called by the
\* owner and by another user
NextStored ==
  \/ \E p \in Reqs, u \in Users, id \in Ids : DeleteFind(p, u, id)
  \/ \E p \in Reqs : DeleteBlob(p)
  \/ \E p \in Reqs : DeleteRow(p)
  \/ \E p \in Reqs, u \in Users, id \in Ids : RegenerateTranscriptFind(p, u, id)
  \/ \E p \in Reqs : RegenerateTranscriptCall(p)
  \/ \E p \in Reqs, u \in Users, id \in Ids : RegenerateSummaryFind(p, u, id)
  \/ \E p \in Reqs : RegenerateSummaryCall(p)
  \/ \E p \in Reqs, u \in Users, id \in Ids, f \in AccessInputs :
       ReUploadFind(p, u, id, f)
  \/ \E p \in Reqs : ReUploadPut(p)
  \/ \E p \in Reqs : ReUploadSetMeta(p)
  \/ \E p \in Reqs : ReUploadTranscribe(p)
  \/ \E p \in Reqs : ReUploadSummarize(p)

SpecStored == InitStored /\ [][NextStored]_vars

\* the continuation of request p after the await it is suspended at: the
\* awaited put, deleteFile, transcription, summarization or statement has
\* settled
Continue(p) ==
  \/ UploadPut(p) \/ UploadSetKey(p) \/ UploadTranscribe(p) \/ UploadSummarize(p)
  \/ DeleteBlob(p) \/ DeleteRow(p)
  \/ RegenerateTranscriptCall(p)
  \/ RegenerateSummaryCall(p)
  \/ ReUploadPut(p) \/ ReUploadSetMeta(p) \/ ReUploadTranscribe(p)
  \/ ReUploadSummarize(p)

\* requests by one user offering the 2 MiB file or no file
NextLive ==
  \/ \E p \in Reqs, f \in AccessInputs : UploadPost(p, "u1", f)
  \/ \E p \in Reqs, id \in Ids : DeleteFind(p, "u1", id)
  \/ \E p \in Reqs, id \in Ids : RegenerateTranscriptFind(p, "u1", id)
  \/ \E p \in Reqs, id \in Ids : RegenerateSummaryFind(p, "u1", id)
  \/ \E p \in Reqs, id \in Ids, f \in AccessInputs : ReUploadFind(p, "u1", id, f)
  \/ \E p \in Reqs : Continue(p)

\* every awaited call settles and the event loop then resumes the handler
CallsSettle == \A p \in Reqs : WF_vars(Continue(p))

SpecLive == Init /\ [][NextLive]_vars /\ CallsSettle

TypeOK ==
  /\ nextId \in 1..(MaxReqs + 1)
  /\ DOMAIN conversations \subseteq 1..(nextId - 1)
  /\ touched \subseteq Reqs
  /\ \A p \in Reqs : req[p].pc = "idle" => req[p] = IdleReq

\* ------------------------------------------------------------- properties
Returns(p) == req[p].pc # "done" /\ req'[p].pc = "done"

Range(seq) == {seq[i] : i \in 1..Len(seq)}

Found(p) == req[p].conversation # NoRow

RestingAfterSubmit(c) ==
  \/ c.status \in {"failed", "transcribed", "summarized"} /\ c.storagePath # EmptyPath
  \/ c.status = "initial" /\ c.storagePath = EmptyPath

\* C1: when an upload that passed the file checks returns, and no other
\* request wrote or deleted its record meanwhile, the record is failed,
\* transcribed or summarized with a non-empty storagePath, or initial with
\* an empty storagePath, whichever of the put, the transcription and the
\* summarization failed.
C1_SubmitLeavesRestingRecord ==
  [][\A p \in Reqs :
       (Returns(p) /\ req'[p].op = "upload" /\ req'[p].id # 0 /\ p \notin touched')
         => /\ req'[p].id \in DOMAIN conversations'
            /\ RestingAfterSubmit(conversations'[req'[p].id])]_vars

C1_Witness ==
  \E p, q \in Reqs :
    /\ req[p].op = "upload" /\ req[p].pc = "done" /\ req[p].stage = "put"
    /\ p \notin touched /\ req[p].id \in DOMAIN conversations
    /\ conversations[req[p].id].status = "initial"
    /\ req[q].op = "upload" /\ req[q].pc = "done" /\ req[q].stage = "transcribe"
    /\ q \notin touched /\ req[q].id \in DOMAIN conversations
    /\ conversations[req[q].id].status = "failed"
    /\ conversations[req[q].id].storagePath # EmptyPath

Eligible(c) == c.status = "initial" /\ c.storagePath = EmptyPath

\* the four status values crossed with an empty and a non-empty storagePath
StatusKeyCombinations ==
  { [NoRow EXCEPT !.status = s, !.storagePath = k] :
      s \in {"initial", "transcribed", "summarized", "failed"},
      k \in {EmptyPath, [user |-> "u1", id |-> 1, ext |-> <<".", "m", "p", "3">>]} }

\* C2: a re-upload by the owner gets past the eligibility check exactly when
\* the row it read has status initial and an empty storagePath; for every
\* other (status, storagePath) it is answered 400 before the file is looked
\* at; and over the eight (status, storagePath) combinations the handler's
\* test rejects all but (initial, empty).
C2_ReUploadEligibility ==
  /\ \A p \in Reqs :
       (req[p].op = "re-upload" /\ Found(p)) =>
         LET rejected == req[p].pc = "done" /\ req[p].stage = "state"
         IN /\ Eligible(req[p].conversation) <=> ~rejected
            /\ rejected => req[p].resp = 400 /\ req[p].calls = <<>>
  /\ \A c \in StatusKeyCombinations : notInFailedUploadState(c) <=> ~Eligible(c)
  /\ Cardinality({c \in StatusKeyCombinations : notInFailedUploadState(c)}) = 7

C2_Witness ==
  \E p \in Reqs :
    /\ req[p].op = "re-upload" /\ Found(p)
    /\ req[p].conversation.status = "initial"
    /\ req[p].conversation.storagePath # EmptyPath
    /\ req[p].pc = "done" /\ req[p].stage = "state" /\ req[p].resp = 400

AttemptsBlobDelete(p) ==
  req[p].pc = "delete_blob" \/ req[p].stage \in {"deleted", "storage_error"}

\* C3 as stated: a delete by the owner attempts the blob deletion if and
\* only if the row it read has status other than initial OR a non-empty
\* storagePath.
C3_BlobDeleteIffStatusOrKey ==
  \A p \in Reqs :
    (req[p].op = "delete" /\ Found(p)) =>
      (AttemptsBlobDelete(p) <=>
         (req[p].conversation.status # "initial"
            \/ req[p].conversation.storagePath # EmptyPath))

\* C3 amended: a delete by the owner attempts the blob deletion if and only
\* if the row it read has status other than initial AND a non-empty
\* storagePath; a row that is initial with a non-empty storagePath (an upload
\* or re-upload between its put and its transcription) is deleted without
\* touching its blob.
C3_BlobDeleteIffStatusAndKey ==
  \A p \in Reqs :
    (req[p].op = "delete" /\ Found(p)) =>
      /\ AttemptsBlobDelete(p) <=>
           (req[p].conversation.status # "initial"
              /\ req[p].conversation.storagePath # EmptyPath)
      /\ ~AttemptsBlobDelete(p) <=> (req[p].stage = "skipped" /\ req[p].calls = <<>>)

C3_Witness ==
  \E p \in Reqs :
    /\ req[p].op = "delete" /\ Found(p)
    /\ req[p].conversation.status = "initial"
    /\ req[p].conversation.storagePath # EmptyPath
    /\ req[p].pc = "done" /\ req[p].stage = "skipped" /\ req[p].resp = 204
    /\ req[p].conversation.storagePath \in bucket

\* C4: a delete by the owner of an existing record leaves the row absent,
\* and answers 204 whenever the row is still there for its row deletion,
\* whether the blob deletion was skipped, succeeded or failed.
C4_DeleteAlwaysRemovesRow ==
  [][\A p \in Reqs :
       (Returns(p) /\ req'[p].op = "delete" /\ Found(p))
         => /\ req'[p].id \notin DOMAIN conversations'
            /\ req'[p].stage \in {"skipped", "deleted", "storage_error"}
            /\ req[p].id \in DOMAIN conversations => req'[p].resp = 204]_vars

C4_Witness ==
  \E p \in Reqs :
    /\ req[p].op = "delete" /\ req[p].pc = "done" /\ Found(p)
    /\ req[p].stage = "storage_error" /\ req[p].resp = 204
    /\ req[p].id \notin DOMAIN conversations
    /\ req[p].conversation.storagePath \in bucket

\* C5: when a regenerate-transcript answers 200, the row holds the new
\* Transcriber output, a null summaryText, status transcribed and a null
\* errorMessage, whatever the row was before.
C5_RegenerateTranscriptSuccess ==
  [][\A p \in Reqs :
       (Returns(p) /\ req'[p].op = "regenerate-transcript" /\ req'[p].resp = 200)
         => /\ req[p].conversation.storagePath # EmptyPath
            /\ req'[p].id \in DOMAIN conversations'
            /\ LET c == conversations'[req'[p].id]
               IN /\ c.transcriptText = req'[p].text
                  /\ req'[p].text \in TranscriptOutputs
                  /\ c.summaryText = NULL
                  /\ c.status = "transcribed"
                  /\ c.errorMessage = NULL]_vars

C5_Witness ==
  \E p \in Reqs :
    /\ req[p].op = "regenerate-transcript" /\ req[p].pc = "done" /\ req[p].resp = 200
    /\ req[p].conversation.status = "summarized"
    /\ req[p].conversation.summaryText # NULL
    /\ req[p].conversation.transcriptText # req[p].text
    /\ conversations[req[p].id].summaryText = NULL
    /\ conversations[req[p].id].transcriptText = req[p].text

SummarizerFailed(p) ==
  req[p].op = "regenerate-summary" /\ req[p].pc = "done" /\ req[p].stage = "summarize"

\* C6: when the Summarizer fails inside regenerate-summary the call answers
\* 422 and writes nothing: the table is the same before and after, and a row
\* no other request wrote meanwhile is still the row the call read.
C6_SummaryFailureLeavesRow ==
  [][\A p \in Reqs :
       (Returns(p) /\ SummarizerFailed(p)')
         => /\ req'[p].resp = 422
            /\ conversations' = conversations
            /\ p \notin touched' =>
                 /\ req'[p].id \in DOMAIN conversations'
                 /\ conversations'[req'[p].id] = req'[p].conversation]_vars

C6_Witness ==
  \E p \in Reqs :
    /\ SummarizerFailed(p) /\ req[p].resp = 422 /\ p \notin touched
    /\ req[p].conversation.status = "transcribed"
    /\ conversations[req[p].id] = req[p].conversation

TranscriberFailed(p) ==
  /\ req[p].op = "regenerate-transcript" /\ req[p].pc = "done"
  /\ req[p].stage = "transcribe"

\* C7: when the Transcriber fails inside regenerate-transcript and the row is
\* there for the update, the row ends failed with an errorMessage and the
\* call answers 422, which is neither the 400 of a record without audio nor
\* the 404 of a record not found.
C7_TranscriptFailureMarksFailed ==
  [][\A p \in Reqs :
       (Returns(p) /\ req'[p].op = "regenerate-transcript")
         => /\ (TranscriberFailed(p)' /\ req[p].id \in DOMAIN conversations)
                 => /\ req[p].conversation.storagePath # EmptyPath
                    /\ req'[p].resp = 422
                    /\ conversations'[req'[p].id].status = "failed"
                    /\ conversations'[req'[p].id].errorMessage # NULL
            /\ req'[p].stage = "no_audio" => req'[p].resp = 400
            /\ req'[p].stage = "not_found" => req'[p].resp = 404]_vars

C7_Witness ==
  \E p \in Reqs :
    /\ TranscriberFailed(p) /\ req[p].resp = 422
    /\ req[p].conversation.status = "transcribed"
    /\ conversations[req[p].id].status = "failed"
    /\ conversations[req[p].id].errorMessage = "Regeneration failed: e"

\* the requests ran one after the other on every row: no request had its
\* row written or deleted by another request while it was in flight
Serial == touched = {}

\* C8 as stated: after any sequence of the operations a row's summaryText is
\* non-null only if its status is summarized.
C8_SummaryOnlyWhenSummarized ==
  Serial =>
    \A id \in DOMAIN conversations :
      conversations[id].summaryText # NULL => conversations[id].status = "summarized"

\* C8 amended: after any sequence of the operations a row's summaryText is
\* non-null only if its status is summarized or failed; a regenerate-transcript
\* whose Transcriber fails on a summarized row marks it failed and keeps its
\* summaryText.
C8_SummaryOnlyWhenSummarizedOrFailed ==
  Serial =>
    \A id \in DOMAIN conversations :
      conversations[id].summaryText # NULL
        => conversations[id].status \in {"summarized", "failed"}

C8_Witness ==
  \E p \in Reqs :
    /\ Serial /\ TranscriberFailed(p) /\ req[p].resp = 422
    /\ req[p].conversation.status = "summarized"
    /\ conversations[req[p].id].status = "failed"
    /\ conversations[req[p].id].summaryText # NULL
    /\ conversations[req[p].id].summaryText = req[p].conversation.summaryText

\* C9: in every reachable state, under every interleaving, a row whose
\* status is transcribed or summarized has a non-null transcriptText.
C9_TranscriptPresentWhenTranscribed ==
  \A id \in DOMAIN conversations :
    conversations[id].status \in {"transcribed", "summarized"}
      => conversations[id].transcriptText # NullText

C9_Witness ==
  \E p \in Reqs :
    /\ req[p].op = "regenerate-summary" /\ req[p].pc = "done" /\ req[p].resp = 200
    /\ req[p].conversation.status = "transcribed"
    /\ req[p].conversation.summaryText = NULL
    /\ conversations[req[p].id].status = "summarized"
    /\ conversations[req[p].id].transcriptText = req[p].conversation.transcriptText
    /\ conversations[req[p].id].transcriptText \in TranscriptOutputs

PutFailed(p) ==
  /\ req[p].op \in {"upload", "re-upload"}
  /\ req[p].pc = "done" /\ req[p].stage = "put"

\* C10: when the blob put fails in upload or re-upload the call answers 500,
\* has called neither the Transcriber nor the Summarizer and writes no row;
\* a row no other request wrote meanwhile is still initial with an empty
\* storagePath and, for re-upload, the filename, MIME type and size it had,
\* so the re-upload eligibility test accepts it.
C10_PutFailureLeavesEligibleRow ==
  [][\A p \in Reqs :
       (Returns(p) /\ PutFailed(p)')
         => /\ req'[p].resp = 500
            /\ req'[p].calls = <<"put">>
            /\ conversations' = conversations
            /\ p \notin touched' =>
                 /\ req'[p].id \in DOMAIN conversations'
                 /\ LET c == conversations'[req'[p].id]
                    IN /\ c.status = "initial"
                       /\ c.storagePath = EmptyPath
                       /\ ~notInFailedUploadState(c)
                       /\ c.originalFilename = req'[p].conversation.originalFilename
                       /\ c.mimeType = req'[p].conversation.mimeType
                       /\ c.sizeBytes = req'[p].conversation.sizeBytes]_vars

C10_Witness ==
  \E p, q \in Reqs :
    /\ PutFailed(p) /\ req[p].op = "upload" /\ p \notin touched
    /\ PutFailed(q) /\ req[q].op = "re-upload" /\ q \notin touched
    /\ req[q].id = req[p].id /\ req[q].resp = 500
    /\ req[q].key # req[p].key
    /\ conversations[req[q].id] = req[q].conversation
    /\ Eligible(conversations[req[q].id])

UploadTranscriberFailed(p) ==
  req[p].op = "upload" /\ req[p].pc = "done" /\ req[p].stage = "transcribe"

\* C11: when an upload has stored its blob and the Transcriber then fails,
\* the call answers with an error (500) and has not called the Summarizer;
\* its row, when no other request wrote or deleted it meanwhile, is failed
\* with an errorMessage, a null transcriptText, a null summaryText and the
\* storagePath of the stored blob.
C11_SubmitTranscriberFailure ==
  [][\A p \in Reqs :
       (Returns(p) /\ UploadTranscriberFailed(p)')
         => /\ req'[p].resp = 500
            /\ req'[p].calls = <<"put", "transcribe">>
            /\ p \notin touched' =>
                 /\ req'[p].id \in DOMAIN conversations'
                 /\ LET c == conversations'[req'[p].id]
                    IN /\ c.status = "failed"
                       /\ c.errorMessage # NULL
                       /\ c.transcriptText = NullText
                       /\ c.summaryText = NULL
                       /\ c.storagePath # EmptyPath
                       /\ c.storagePath = req'[p].key]_vars

C11_Witness ==
  \E p \in Reqs :
    /\ UploadTranscriberFailed(p) /\ p \notin touched /\ req[p].resp = 500
    /\ req[p].key \in bucket
    /\ conversations[req[p].id].status = "failed"
    /\ conversations[req[p].id].errorMessage = "e"
    /\ conversations[req[p].id].transcriptText = NullText
    /\ conversations[req[p].id].storagePath = req[p].key

SummaryStepFailed(p) ==
  /\ req[p].op \in {"upload", "re-upload"}
  /\ req[p].pc = "done" /\ req[p].stage = "summarize"

\* C12: when the Transcriber has succeeded and the Summarizer then fails, in
\* upload or in re-upload, the failing step writes nothing and the call
\* answers 200 with status transcribed; the row, when no other request wrote
\* or deleted it meanwhile, is transcribed with the new transcriptText, a
\* null summaryText and a null errorMessage.
C12_SummarizerFailureRestsTranscribed ==
  [][\A p \in Reqs :
       (Returns(p) /\ SummaryStepFailed(p)')
         => /\ req'[p].resp = 200
            /\ req'[p].body.status = "transcribed"
            /\ req'[p].text \in TranscriptOutputs
            /\ conversations' = conversations
            /\ p \notin touched' =>
                 /\ req'[p].id \in DOMAIN conversations'
                 /\ LET c == conversations'[req'[p].id]
                    IN /\ c.status = "transcribed"
                       /\ c.transcriptText = req'[p].text
                       /\ c.summaryText = NULL
                       /\ c.errorMessage = NULL]_vars

C12_Witness ==
  \E q \in Reqs :
    /\ SummaryStepFailed(q) /\ req[q].op = "re-upload" /\ req[q].resp = 200
    /\ q \notin touched /\ req[q].calls = <<"put", "transcribe", "summarize">>
    /\ req[q].body.status = "transcribed" /\ req[q].body.summaryText = NULL
    /\ conversations[req[q].id].status = "transcribed"
    /\ conversations[req[q].id].transcriptText = req[q].text
    /\ conversations[req[q].id].summaryText = NULL
    /\ conversations[req[q].id].storagePath = req[q].key

\* request p enters its handler in this step
Starts(p) == req[p].pc = "idle" /\ req'[p].pc # "idle"

ById == {"get", "delete", "regenerate-transcript", "regenerate-summary", "re-upload"}

\* what the caller and the system see of a not-found call
NotFoundOutcome(r) ==
  /\ r.pc = "done" /\ r.resp = 404 /\ r.body = NoRow
  /\ r.stage = "not_found" /\ r.calls = <<>> /\ r.conversation = NoRow

\* C13: a get, delete, regenerate-transcript, regenerate-summary or re-upload
\* by a caller who does not own the row named, whatever the row holds, and
\* one naming an id with no row both end at once with the same 404 outcome,
\* leave the table and the bucket as they were and call neither the
\* Transcriber nor the Summarizer; a list returns only rows whose userId is
\* the caller's.
C13_NonOwnerIsNotFound ==
  [][\A p \in Reqs :
       (Starts(p) /\ req'[p].userId # NoUser) =>
         /\ (req'[p].op \in ById
               /\ (req'[p].id \notin DOMAIN conversations
                     \/ conversations[req'[p].id].userId # req'[p].userId))
              => /\ NotFoundOutcome(req'[p])
                 /\ conversations' = conversations
                 /\ bucket' = bucket
         /\ req'[p].op = "list"
              => /\ \A x \in req'[p].body.rows : x.row.userId = req'[p].userId
                 /\ conversations' = conversations
                 /\ bucket' = bucket]_vars

C13_Witness ==
  \E p \in Reqs :
    /\ req[p].op \in ById /\ NotFoundOutcome(req[p])
    /\ req[p].userId = "u2"
    /\ req[p].id \in DOMAIN conversations
    /\ conversations[req[p].id].userId = "u1"
    /\ conversations[req[p].id].status \in {"transcribed", "summarized"}
    /\ conversations[req[p].id].transcriptText # NullText
    /\ conversations[req[p].id].storagePath \in bucket

\* the routes behind authMiddleware
Guarded == ById \cup {"upload", "list"}

\* C18: a request to the upload or transcripts routes without the X-User-Id
\* header is answered 401 by the middleware: the handler is not entered, so
\* no row is read, created or changed and no blob is touched; GET /health
\* answers 200 with ok = true without any header.
C18_NoIdentityIs401 ==
  [][\A p \in Reqs :
       Starts(p) =>
         /\ (req'[p].op \in Guarded /\ req'[p].userId = NoUser)
              => /\ req'[p] = Unauthorized(req'[p])
                 /\ req'[p].resp = 401 /\ req'[p].calls = <<>>
                 /\ req'[p].conversation = NoRow /\ req'[p].body = NoRow
                 /\ UNCHANGED <<conversations, nextId, bucket, touched>>
         /\ req'[p].op = "health"
              => /\ req'[p].pc = "done" /\ req'[p].resp = 200
                 /\ req'[p].body.ok = TRUE
                 /\ UNCHANGED <<conversations, nextId, bucket, touched>>]_vars

C18_Witness ==
  \E p \in Reqs, id \in DOMAIN conversations :
    /\ req[p].op \in {"delete", "re-upload", "regenerate-transcript"}
    /\ req[p].userId = NoUser
    /\ req[p].pc = "done" /\ req[p].stage = "unauthorized" /\ req[p].resp = 401
    /\ conversations[id].storagePath \in bucket
    /\ touched = {}

ValidationStages ==
  {"state", "no_file", "file_type", "file_size", "no_audio", "no_transcript"}

ValidationRejected(r) == r.pc = "done" /\ r.stage \in ValidationStages

\* C14: a re-upload of a row that is not (initial, empty), a
\* regenerate-transcript of a row with an empty storagePath and a
\* regenerate-summary of a row without transcript are rejected, and every
\* call rejected for its state or its file (upload and re-upload) is answered
\* 400 in the step in which it entered its handler, with no row created or
\* changed, no blob written or deleted and no Transcriber or Summarizer call.
C14_ValidationBeforeMutation ==
  [][\A p \in Reqs :
       /\ (Starts(p) /\ Found(p)') =>
            LET c == req'[p].conversation
            IN /\ (req'[p].op = "re-upload" /\ ~Eligible(c))
                    => ValidationRejected(req'[p])
               /\ (req'[p].op = "regenerate-transcript" /\ c.storagePath = EmptyPath)
                    => ValidationRejected(req'[p])
               /\ (req'[p].op = "regenerate-summary" /\ c.transcriptText = NullText)
                    => ValidationRejected(req'[p])
       /\ (Returns(p) /\ ValidationRejected(req'[p])) =>
            /\ Starts(p)
            /\ req'[p].resp = 400
            /\ req'[p].calls = <<>>
            /\ UNCHANGED <<conversations, nextId, bucket, touched>>]_vars

C14_Witness ==
  \E p, q \in Reqs :
    /\ req[p].op = "upload" /\ req[p].pc = "done" /\ req[p].stage = "put"
    /\ req[q].op = "regenerate-transcript" /\ ValidationRejected(req[q])
    /\ req[q].id = req[p].id /\ req[q].stage = "no_audio" /\ req[q].resp = 400
    /\ req[q].conversation.status = "initial"
    /\ conversations[req[q].id] = req[q].conversation
    /\ req[q].calls = <<>>

\* the file rule as the specification words it
RuleAccepts(f) ==
  /\ \/ f.type \in {"audio/mpeg", "audio/mp3", "audio/mp4", "audio/x-m4a", "video/mp4"}
     \/ toLowerCase(extname(f.name)) \in
          { <<".", "m", "p", "3">>, <<".", "m", "p", "4">>, <<".", "m", "4", "a">> }
  /\ f.size <= 25 * 1024 * 1024

\* files with the verdict expected of them
FileRuleCases ==
  { [name |-> <<"a", ".", "m", "p", "3">>, type |-> "audio/mpeg", size |-> 1, accept |-> TRUE],
    [name |-> <<"a", ".", "t", "x", "t">>, type |-> "audio/x-m4a", size |-> 1, accept |-> TRUE],
    [name |-> <<"a", ".", "M", "P", "4">>, type |-> "text/plain", size |-> 1, accept |-> TRUE],
    [name |-> <<"a", ".", "m", "4", "a">>, type |-> "", size |-> 25 * 1024 * 1024, accept |-> TRUE],
    [name |-> <<"a", ".", "m", "4", "a">>, type |-> "", size |-> 25 * 1024 * 1024 + 1, accept |-> FALSE],
    [name |-> <<"a", ".", "m", "p", "3">>, type |-> "audio/mpeg", size |-> 30 * 1024 * 1024, accept |-> FALSE],
    [name |-> <<"a", ".", "t", "x", "t">>, type |-> "text/plain", size |-> 1, accept |-> FALSE],
    [name |-> <<"m", "p", "3">>, type |-> "text/plain", size |-> 1, accept |-> FALSE],
    [name |-> <<".", "m", "p", "3">>, type |-> "text/plain", size |-> 1, accept |-> FALSE],
    [name |-> <<"a", ".", "m", "p", "3", ".", "t", "x", "t">>, type |-> "text/plain", size |-> 1, accept |-> FALSE],
    [name |-> <<"a", ".", "t", "x", "t", ".", "m", "p", "3">>, type |-> "text/plain", size |-> 1, accept |-> TRUE] }

\* C15: upload and re-upload let a file through to the blob put exactly when
\* its MIME type or its lower-cased extension is allowed and its size is at
\* most 25 * 1024 * 1024; a file of exactly that size passes, one byte more
\* does not; an upload that is rejected creates no row.
C15_SameFileRule ==
  /\ \A f \in FileRuleCases :
       /\ (typeAllowed(f) /\ sizeAllowed(f)) <=> f.accept
       /\ RuleAccepts(f) <=> f.accept
  /\ \A p \in Reqs :
       (req[p].op \in {"upload", "re-upload"} /\ req[p].file # NoFile) =>
         /\ req[p].pc \notin {"idle", "done"} <=> RuleAccepts(req[p].file)
         /\ (req[p].op = "upload" /\ req[p].pc = "done") =>
              /\ ~RuleAccepts(req[p].file)
              /\ req[p].resp = 400 /\ req[p].id = 0 /\ req[p].conversation = NoRow
  /\ Cardinality({p \in Reqs : req[p].op = "upload" /\ req[p].id # 0}) = nextId - 1
  /\ \A id \in DOMAIN conversations :
       RuleAccepts([name |-> conversations[id].originalFilename,
                    type |-> conversations[id].mimeType,
                    size |-> conversations[id].sizeBytes])

C15_Witness ==
  \E p, q \in Reqs :
    /\ req[p].op = "upload" /\ req[p].pc = "upload_put"
    /\ req[p].file.size = maxSize /\ req[p].file.type \notin allowedTypes
    /\ req[p].id \in DOMAIN conversations
    /\ req[q].op = "upload" /\ req[q].pc = "done" /\ req[q].stage = "file_size"
    /\ req[q].file.size = maxSize + 1 /\ req[q].file.type \in allowedTypes
    /\ req[q].id = 0 /\ Cardinality(DOMAIN conversations) = 1

\* the first n characters of a text
FirstChars(t, n) == IF t.len <= n THEN t ELSE [src |-> t.src, len |-> n]

\* C17: an upload of a valid file whose put, transcription and summarization
\* all succeed answers 200 with the row's id, status summarized, the first
\* 300 characters of the row's transcriptText and the summary; the row is
\* summarized with a non-empty storagePath, and holds this call's
\* transcript when no other request wrote the row meanwhile.
C17_SubmitHappyPath ==
  [][\A p \in Reqs :
       (Returns(p) /\ req'[p].op = "upload" /\ req'[p].stage = "ok")
         => /\ req'[p].calls = <<"put", "transcribe", "summarize">>
            /\ req'[p].id \in DOMAIN conversations'
            /\ LET c == conversations'[req'[p].id]
                   b == req'[p].body
               IN /\ c.status = "summarized"
                  /\ c.storagePath # EmptyPath
                  /\ c.summaryText = req'[p].summary
                  /\ req'[p].resp = 200
                  /\ b.id = req'[p].id
                  /\ b.status = "summarized"
                  /\ b.transcriptPreview = FirstChars(c.transcriptText, 300)
                  /\ b.summary = req'[p].summary
                  /\ b.summary \in SummaryOutputs
                  /\ p \notin touched' =>
                       /\ c.transcriptText = req'[p].text
                       /\ c.storagePath = req'[p].key
                       /\ c.errorMessage = NULL]_vars

C17_Witness ==
  \E p \in Reqs :
    /\ req[p].op = "upload" /\ req[p].pc = "done" /\ req[p].stage = "ok"
    /\ p \notin touched /\ req[p].resp = 200
    /\ conversations[req[p].id].sizeBytes = 2 * 1024 * 1024
    /\ conversations[req[p].id].status = "summarized"
    /\ conversations[req[p].id].transcriptText.len = 450
    /\ req[p].body.transcriptPreview.len = 300
    /\ req[p].body.transcriptPreview.src = conversations[req[p].id].transcriptText.src
    /\ req[p].body.summary = conversations[req[p].id].summaryText

\* C16: when a regenerate-summary call q succeeds on a record that an
\* earlier successful regenerate-summary call p, begun on a summarized
\* record, has just left (q read the row p returned, no other request wrote
\* the row while either ran), the record is summarized with q's Summarizer
\* output, and transcriptText is the same before p, between p and q, and
\* after q; p itself, returning, left the record summarized with its own
\* output and the transcriptText it found.
SummaryRegenerated(p) ==
  /\ req[p].op = "regenerate-summary"
  /\ req[p].pc = "done"
  /\ req[p].resp = 200

C16_RegenerateSummaryTwice ==
  [][/\ \A p \in Reqs :
          (/\ Returns(p)
           /\ req[p].op = "regenerate-summary"
           /\ req'[p].resp = 200
           /\ req[p].conversation.status = "summarized"
           /\ p \notin touched')
          => /\ conversations'[req[p].id].status = "summarized"
             /\ conversations'[req[p].id].summaryText = req'[p].summary
             /\ conversations'[req[p].id].transcriptText
                  = req[p].conversation.transcriptText
     /\ \A p, q \in Reqs :
       (/\ p # q
        /\ SummaryRegenerated(p)
        /\ req[p].conversation.status = "summarized"
        /\ Returns(q)
        /\ req[q].op = "regenerate-summary"
        /\ req'[q].resp = 200
        /\ req[q].id = req[p].id
        /\ req[q].conversation = req[p].body
        /\ {p, q} \cap touched' = {})
       => /\ conversations'[req[q].id].status = "summarized"
          /\ conversations'[req[q].id].summaryText = req'[q].summary
          /\ req[q].conversation.transcriptText = req[p].conversation.transcriptText
          /\ conversations'[req[q].id].transcriptText
               = req[p].conversation.transcriptText]_vars

\* two regenerate-summary calls in sequence on the summarized record, the
\* Summarizer answering differently each time
C16_Witness ==
  \E p, q \in Reqs :
    /\ p < q
    /\ SummaryRegenerated(p) /\ SummaryRegenerated(q)
    /\ req[p].id = req[q].id
    /\ req[p].conversation.status = "summarized"
    /\ req[q].conversation = req[p].body
    /\ req[p].summary # req[q].summary
    /\ touched = {}
    /\ conversations[req[q].id].summaryText = req[q].summary
    /\ conversations[req[q].id].status = "summarized"
    /\ truthyText(conversations[req[q].id].transcriptText)

\* C19: when two regenerate-transcript calls on the same record overlap (both
\* read the row before either wrote it) and both write the row, p first and
\* q last, with no other request writing that row, the row q leaves is the
\* row obtained by running p alone on the row both read and then q alone on
\* the result: all of transcriptText, summaryText, status and errorMessage
\* are those of the serial order p, q.
WroteTranscriptOutcome(r) ==
  /\ r.op = "regenerate-transcript"
  /\ r.pc = "done"
  /\ r.resp \in {200, 422}

\* the row a regenerate-transcript call with r's Transcriber outcome leaves
\* when it runs alone on `row`
AloneOn(row, r) ==
  LET data == IF r.resp = 200 THEN regeneratedTranscript(r.text)
              ELSE failedRegeneration("e")
  IN [f \in DOMAIN row |-> IF f \in DOMAIN data THEN data[f] ELSE row[f]]

\* no request other than p and q has written, or may yet write, row `id`
OnlyWriters(p, q, id) ==
  \A r \in Reqs \ {p, q} :
     \/ req[r].pc = "idle"
     \/ req[r].id # id
     \/ req[r].pc = "done" /\ req[r].resp \in {400, 401, 404}

C19_ConcurrentRegenerateIsSerial ==
  [][\A p, q \in Reqs :
       (/\ p # q
        /\ WroteTranscriptOutcome(req[p])
        /\ Returns(q)
        /\ WroteTranscriptOutcome(req'[q])
        /\ req[q].id = req[p].id
        /\ q \in touched /\ p \notin touched
        /\ OnlyWriters(p, q, req[q].id))
       => /\ req[q].conversation = req[p].conversation
          /\ conversations'[req[q].id]
               = AloneOn(AloneOn(req[p].conversation, req[p]), req'[q])]_vars

\* both calls read the summarized record; the first to write stores a new
\* transcript, the last to write fails: the row is failed, with the first
\* call's transcript and no summary
C19_Witness ==
  \E p, q \in Reqs :
    /\ p # q
    /\ WroteTranscriptOutcome(req[p]) /\ WroteTranscriptOutcome(req[q])
    /\ req[p].id = req[q].id
    /\ q \in touched /\ p \notin touched
    /\ req[p].resp = 200 /\ req[q].resp = 422
    /\ req[p].conversation.status = "summarized"
    /\ req[p].text # req[p].conversation.transcriptText
    /\ conversations[req[q].id].transcriptText = req[p].text
    /\ conversations[req[q].id].summaryText = NULL
    /\ conversations[req[q].id].status = "failed"

\* C20: once every regenerate-transcript and regenerate-summary call has
\* completed, a non-null summaryText on the record is a Summarizer output
\* for the record's current transcriptText: either some regenerate-summary
\* call passed that transcriptText to the Summarizer and got this summary,
\* or no call stored a summary and the record still has the transcript and
\* the summary it was stored with.
Quiescent == \A p \in Reqs : req[p].pc \in {"idle", "done"}

\* summarizeTranscript(conversation.transcriptText, id) returned s for t
SummarizedFrom(s, t) ==
  \E q \in Reqs :
    /\ req[q].op = "regenerate-summary"
    /\ req[q].summary = s
    /\ req[q].conversation.transcriptText = t

StoredWith(s, t) ==
  /\ \A q \in Reqs : ~(req[q].op = "regenerate-summary" /\ req[q].resp = 200)
  /\ \E c \in SeedRows : c.summaryText = s /\ c.transcriptText = t

C20_NoStaleSummary ==
  Quiescent =>
    \A id \in DOMAIN conversations :
      LET c == conversations[id]
      IN c.summaryText # NULL =>
           \/ SummarizedFrom(c.summaryText, c.transcriptText)
           \/ StoredWith(c.summaryText, c.transcriptText)

\* C21: a validated upload or re-upload call makes its external calls in the
\* order put, transcribe, summarize, each at most once, and returns having
\* attempted exactly one put; when it calls the Transcriber it has made only
\* the put and the row the update returned carries the call's key (and the
\* table carries it and the blob is in the bucket under it, unless another
\* request wrote the row); when it calls the Summarizer it has made only the
\* put and the transcription, and the row the update returned has status
\* transcribed and the call's transcript (as does the table, unless another
\* request wrote the row).
Pipeline(r) == r.op \in {"upload", "re-upload"}

\* the row the handler holds from its last update
Held(r) == IF r.op = "upload" THEN r.conversation ELSE r.updatedConversation

StageOrder == <<"put", "transcribe", "summarize">>

Validated(r) ==
  /\ r.pc = "done"
  /\ r.stage \notin ValidationStages \cup {"unauthorized", "not_found"}

C21_StagesInOrder ==
  [][\A p \in Reqs :
       Pipeline(req'[p]) =>
         LET made == req[p].calls
             now == req'[p].calls
             id == req'[p].id
         IN /\ \E n \in 0..3 : now = SubSeq(StageOrder, 1, n)
            /\ Len(now) \in {Len(made), Len(made) + 1}
            /\ (Returns(p) /\ Validated(req'[p])) => Len(now) >= 1
            /\ (Len(made) = 1 /\ Len(now) = 2) =>
                 /\ truthyPath(req[p].key)
                 /\ Held(req[p]).storagePath = req[p].key
                 /\ p \notin touched =>
                      /\ req[p].key \in bucket
                      /\ exists(id)
                      /\ conversations[id].storagePath = req[p].key
            /\ (Len(made) = 2 /\ Len(now) = 3) =>
                 /\ Held(req[p]).status = "transcribed"
                 /\ Held(req[p]).transcriptText = req[p].text
                 /\ p \notin touched =>
                      /\ exists(id)
                      /\ conversations[id].status = "transcribed"
                      /\ conversations[id].transcriptText = req[p].text]_vars

\* an upload whose put failed after its single attempt, and a re-upload of
\* the same record that went through all three stages
C21_Witness ==
  \E p, q \in Reqs :
    /\ req[p].op = "upload" /\ req[p].pc = "done"
    /\ req[p].calls = <<"put">> /\ req[p].resp = 500
    /\ req[q].op = "re-upload" /\ req[q].pc = "done" /\ req[q].id = req[p].id
    /\ req[q].calls = StageOrder /\ req[q].resp = 200

FailedRows == {id \in DOMAIN conversations : conversations[id].status = "failed"}

ReUploadOfFailedRejected ==
  \A id \in FailedRows, p \in Reqs :
     (/\ Starts(p)
      /\ req'[p].op = "re-upload"
      /\ req'[p].id = id
      /\ req'[p].userId = conversations[id].userId)
     => req'[p].resp = 400 /\ req'[p].stage = "state"

\* the record has a transcript with text in it
TranscriptPresent(c) == c.transcriptText # NullText /\ c.transcriptText.len > 0

LeavesFailed(id) ==
  /\ id \in DOMAIN conversations'
  /\ conversations'[id].status # "failed"

C23_FailedOnlyRegenerateTranscript ==
  [][/\ ReUploadOfFailedRejected
     /\ \A id \in FailedRows :
          LeavesFailed(id) =>
            \E p \in Reqs :
              /\ Returns(p)
              /\ req'[p].op = "regenerate-transcript"
              /\ req'[p].id = id
              /\ req'[p].resp = 200]_vars

\* C23 (amended): while a record is failed, a re-upload of it by its owner
\* is answered 400; a regenerate-summary of it by its owner is answered 400
\* when the record has no transcript; and a step that gives the record
\* another status is the return of a successful regenerate-transcript, or
\* the return of a successful regenerate-summary on a record that has a
\* transcript, or a row update of a re-upload that was in flight on the
\* record when another request wrote it.
C23_FailedLeftByRegeneration ==
  [][/\ ReUploadOfFailedRejected
     /\ \A id \in FailedRows, p \in Reqs :
          (/\ Starts(p)
           /\ req'[p].op = "regenerate-summary"
           /\ req'[p].id = id
           /\ req'[p].userId = conversations[id].userId
           /\ ~TranscriptPresent(conversations[id]))
          => req'[p].resp = 400 /\ req'[p].stage = "no_transcript"
     /\ \A id \in FailedRows :
          LeavesFailed(id) =>
            \E p \in Reqs :
              /\ req'[p] # req[p]
              /\ req'[p].id = id
              /\ \/ /\ Returns(p)
                    /\ req'[p].op = "regenerate-transcript"
                    /\ req'[p].resp = 200
                    /\ conversations'[id].status = "transcribed"
                 \/ /\ Returns(p)
                    /\ req'[p].op = "regenerate-summary"
                    /\ req'[p].resp = 200
                    /\ TranscriptPresent(conversations[id])
                    /\ conversations'[id].status = "summarized"
                 \/ /\ Pipeline(req[p])
                    /\ p \in touched]_vars

\* a regenerate-summary has moved a failed record that kept its transcript to
\* summarized, and a re-upload of the failed record was answered 400
C23_Witness ==
  \E p, q \in Reqs :
    /\ req[p].op = "re-upload" /\ req[p].pc = "done"
    /\ req[p].conversation.status = "failed"
    /\ req[p].resp = 400
    /\ req[q].op = "regenerate-summary" /\ req[q].pc = "done"
    /\ req[q].id = req[p].id
    /\ req[q].conversation.status = "failed"
    /\ req[q].resp = 200
    /\ conversations[req[q].id].status = "summarized"

\* C24: under the assumption that every awaited call settles, whenever
\* requests are inside their handlers a moment follows at which none is and
\* each of them has its response (a request never leaves its handler other
\* than by returning, so every one of them has returned); at every moment
\* the next step of every request in flight can be taken whatever the other
\* requests are doing; and when an upload that created a row returns, and no
\* other request wrote or deleted the row meanwhile, the row is summarized,
\* transcribed or failed with a key, or initial with an empty storagePath.
InFlight(p) == req[p].pc \notin {"idle", "done"}

C24_EveryCallReturns ==
  /\ (\E p \in Reqs : InFlight(p))
       ~> (\A p \in Reqs : ~InFlight(p) /\ (req[p].pc = "done" => req[p].resp # 0))
  /\ [](\A p \in Reqs : InFlight(p) => ENABLED Continue(p))
  /\ [][\A p \in Reqs :
          (Returns(p) /\ req'[p].op = "upload" /\ req'[p].id # 0
             /\ p \notin touched')
          => /\ req'[p].id \in DOMAIN conversations'
             /\ RestingAfterSubmit(conversations'[req'[p].id])]_vars

\* every request has returned: an upload through all its stages, and a
\* delete of its record that took the blob and the row
C24_Witness ==
  \E p, q \in Reqs :
    /\ \A r \in Reqs : req[r].pc = "done"
    /\ req[p].op = "upload" /\ req[p].resp = 200 /\ req[p].calls = StageOrder
    /\ req[q].op = "delete" /\ req[q].resp = 204 /\ req[q].id = req[p].id
    /\ req[q].calls = <<"deleteFile">>
    /\ touched = {}

\* C25 (as stated): a step that adds a row is an upload creating it under a
\* fresh id; no step changes the userId of a row; a step of a re-upload
\* neither adds nor removes a row; and a step that changes originalFilename,
\* mimeType, sizeBytes or storagePath of a row is the metadata update of a
\* re-upload of that row whose blob put succeeded.
Kept == DOMAIN conversations \cap DOMAIN conversations'

FileFields == {"originalFilename", "mimeType", "sizeBytes", "storagePath"}

Changed(id) == {f \in FileFields : conversations'[id][f] # conversations[id][f]}

RowsOnlyFromUpload ==
  /\ DOMAIN conversations' \ DOMAIN conversations # {} =>
       \E p \in Reqs :
         /\ Starts(p) /\ req'[p].op = "upload"
         /\ req'[p].id \notin DOMAIN conversations
         /\ DOMAIN conversations' = DOMAIN conversations \cup {req'[p].id}
  /\ \A id \in Kept : conversations'[id].userId = conversations[id].userId
  /\ \A p \in Reqs :
       (req'[p] # req[p] /\ req'[p].op = "re-upload")
         => DOMAIN conversations' = DOMAIN conversations
  /\ \A p \in Reqs :
       (req'[p] # req[p]
          /\ req'[p].op \in {"regenerate-transcript", "regenerate-summary"})
         => /\ DOMAIN conversations' = DOMAIN conversations
            /\ \A id \in Kept : Changed(id) = {}

\* the update of a re-upload of row id, after its put stored the blob
ReUploadStores(p, id) ==
  /\ req[p].op = "re-upload" /\ req[p].id = id
  /\ req[p].pc = "ru_set_meta" /\ req'[p].pc = "ru_transcribe"
  /\ req[p].calls = <<"put">> /\ req[p].key \in bucket
  /\ conversations'[id].storagePath = req[p].key

C25_FileFieldsOnlyByReUpload ==
  [][/\ RowsOnlyFromUpload
     /\ \A id \in Kept :
          Changed(id) # {} => \E p \in Reqs : ReUploadStores(p, id)]_vars

\* C25 (amended): as above, except that storagePath, and it alone, is also
\* changed to the blob's key by the upload that created the row, once its
\* blob put succeeded: from empty, unless a re-upload wrote the row while the
\* upload was in flight.
UploadStoresKey(p, id) ==
  /\ req[p].op = "upload" /\ req[p].id = id
  /\ req[p].pc = "upload_set_key" /\ req'[p].pc = "upload_transcribe"
  /\ req[p].calls = <<"put">> /\ req[p].key \in bucket
  /\ Changed(id) = {"storagePath"}
  /\ p \notin touched => conversations[id].storagePath = EmptyPath
  /\ conversations'[id].storagePath = req[p].key

C25_FileFieldsOnlyByUploads ==
  [][/\ RowsOnlyFromUpload
     /\ \A id \in Kept :
          Changed(id) # {} =>
            \E p \in Reqs : ReUploadStores(p, id) \/ UploadStoresKey(p, id)]_vars

\* the put of an upload failed; a re-upload of its row with another file
\* went through: one row, the same id, the new file's name, type and size
C25_Witness ==
  \E p, q \in Reqs :
    /\ req[p].op = "upload" /\ req[p].pc = "done" /\ req[p].stage = "put"
    /\ req[q].op = "re-upload" /\ req[q].pc = "done" /\ req[q].resp = 200
    /\ req[q].id = req[p].id
    /\ DOMAIN conversations = {req[p].id}
    /\ conversations[req[p].id].originalFilename
         # req[p].conversation.originalFilename
    /\ conversations[req[p].id].sizeBytes # req[p].conversation.sizeBytes
    /\ conversations[req[p].id].storagePath = req[q].key

\* C26: when no request is in flight and no deleteFile call has failed,
\* every blob in the bucket is the storagePath of a row in the table.
DeleteFileFailed ==
  \E p \in Reqs : req[p].op = "delete" /\ req[p].stage = "storage_error"

Orphans ==
  {k \in bucket : \A id \in DOMAIN conversations : conversations[id].storagePath # k}

C26_NoOrphanedBlobs == (Quiescent /\ ~DeleteFileFailed) => Orphans = {}

\* C27: in every reachable state a row whose status is not initial has a
\* non-empty storagePath; a step that takes a row's status away from initial
\* finds the key already on the row and its blob in the bucket; and no step
\* empties a storagePath.
C27_KeyBeforeStatus ==
  /\ [](\A id \in DOMAIN conversations :
          conversations[id].status # "initial"
            => conversations[id].storagePath # EmptyPath)
  /\ [][\A id \in Kept :
          /\ conversations[id].storagePath # EmptyPath
               => conversations'[id].storagePath # EmptyPath
          /\ (conversations[id].status = "initial"
                /\ conversations'[id].status # "initial")
               => /\ conversations[id].storagePath # EmptyPath
                  /\ conversations[id].storagePath \in bucket]_vars

\* an upload has stored its blob and persisted the key while the status was
\* still initial, and then failed in transcription
C27_Witness ==
  \E p \in Reqs :
    /\ req[p].op = "upload" /\ req[p].pc = "done" /\ req[p].stage = "transcribe"
    /\ req[p].conversation.status = "initial"
    /\ req[p].conversation.storagePath = req[p].key
    /\ req[p].id \in DOMAIN conversations
    /\ conversations[req[p].id].status = "failed"
    /\ conversations[req[p].id].storagePath = req[p].key
    /\ req[p].key \in bucket

\* C28: in every reachable state the errorMessage of a row is non-null
\* exactly when its status is failed.
C28_ErrorMessageIffFailed ==
  \A id \in DOMAIN conversations :
    (conversations[id].errorMessage # NULL) <=> (conversations[id].status = "failed")

\* C29: once the row of an upload, a re-upload or a regeneration in flight
\* has been deleted, no step brings the id back into the table, and the
\* request in flight ends with an error response.
Deleted(id) == id \in 1..(nextId - 1) /\ id \notin DOMAIN conversations

OnDeletedRow(p) ==
  /\ InFlight(p)
  /\ req[p].op \in {"upload", "re-upload", "regenerate-transcript",
                    "regenerate-summary"}
  /\ Deleted(req[p].id)

C29_DeletedRowStaysDeleted ==
  [][/\ \A id \in 1..(nextId - 1) : Deleted(id) => id \notin DOMAIN conversations'
     /\ \A p \in Reqs :
          (OnDeletedRow(p) /\ Returns(p)) => req'[p].resp \in {422, 500}]_vars

\* C30: while a re-upload of a record is past the eligibility check and has
\* not yet returned, every further re-upload of that record by its owner is
\* answered 400 on entry: no two re-uploads of one record are in flight
\* together.
ReUploading(p, id) ==
  InFlight(p) /\ req[p].op = "re-upload" /\ req[p].id = id

C30_OneReUploadPastTheCheck ==
  [][\A q \in Reqs :
       (/\ Starts(q)
        /\ req'[q].op = "re-upload"
        /\ \E p \in Reqs \ {q} :
             ReUploading(p, req'[q].id) /\ req[p].userId = req'[q].userId)
       => req'[q].resp = 400]_vars

====
